---- MODULE Spec2Model ----
(***************************************************************************)
(* State-machine model of GalGamePlugin (src/main.py): the session store   *)
(* game_sessions, the three message handlers, the four narrative           *)
(* coroutines cut at their suspension points, and terminate.               *)
(*                                                                         *)
(* Texts are pairs <<kind, n>>.  The provider is a function of its inputs: *)
(* its non-empty completion for prompt P called with a context of n        *)
(* entries is <<P, n>>; the empty completion is <<"", 0>>; notices and     *)
(* built-in defaults are <<name, 0>>.                                      *)
(* The CJK characters of the two command words are written as the pseudo   *)
(* characters "qi" "dong" (start) and "guan" "bi" (stop).                  *)
(***************************************************************************)
EXTENDS Naturals, Sequences, FiniteSets, TLC

VARIABLES game_sessions, tasks, faults, launched, raced, current_game, transport

vars == <<game_sessions, tasks, faults, launched, raced, current_game, transport>>

\* ------------------------------------------------------------------ bounds
\* narrative operations (accepted starts and accepted choices) of one run
MaxOps == 3
\* external calls of one run that do not return a non-empty completion
\* (or a conversation): raise, empty text, no completion_text, None
MaxFaults == 1

Ids == {"u1", "u2"}
\* How the transport delivers messages, fixed for a run:
\*   "serial"  - one identifier sends; no message is dispatched while a
\*               narrative operation is suspended, except the stop command;
\*   "overlap" - one identifier sends; the start command too is dispatched
\*               while an operation is suspended;
\*   "pair"    - two identifiers send; the messages of each are dispatched as
\*               under "serial", the operations of the two interleave.
\* terminate runs at any time.  At most two operations are suspended at a
\* time; the third record is the handler that has just finished.
Transports == {"serial", "overlap", "pair"}
Senders == IF transport = "pair" THEN Ids ELSE {"u1"}
Slots == 1..3
\* narrative operations and failing external calls of a run: one less of
\* each where operations interleave
OpsBudget == IF transport = "serial" THEN MaxOps ELSE MaxOps - 1
FaultBudget == IF transport = "serial" THEN MaxFaults ELSE MaxFaults - 1

\* ------------------------------------------------------------------ texts
Text(k, n) == <<k, n>>
Notice(k) == <<k, 0>>
Empty == <<"", 0>>

SYSTEM_SCENE_PROMPT_NAME == "SYSTEM_SCENE_PROMPT"
SYSTEM_RESPONSE_PROMPT_NAME == "SYSTEM_RESPONSE_PROMPT"
Labels == <<"A", "B", "C">>
OptionPromptName(label) ==
    CASE label = "A" -> "OPTION_A_PROMPT"
      [] label = "B" -> "OPTION_B_PROMPT"
      [] label = "C" -> "OPTION_C_PROMPT"

\* self.prompt_templates[name]: the configured or built-in template text
prompt_templates(name) == Notice(name)

AlreadyRunning == Notice("already_running")
Started == Notice("gal_started")
NothingRunning == Notice("nothing_running")
Stopped == Notice("gal_stopped")
NoConversation == Notice("no_conversation_restart_game")
InvalidChoice == Notice("unrecognised_choice")
SceneError(detail) == Notice(IF detail = "provider" THEN "scene_error:provider"
                                                    ELSE "scene_error:KeyError")
OptionsError(detail) == Notice(IF detail = "provider" THEN "options_error:provider"
                                                      ELSE "options_error:KeyError")
StoryError(detail) == Notice(IF detail = "provider" THEN "story_error:provider"
                                                    ELSE "story_error:KeyError")

SceneFallback == Notice("welcome_to_the_game_world")
StoryFallback == Notice("story_continues")
OptionFallback(label) ==
    CASE label = "A" -> Notice("A - gentle smile")
      [] label = "B" -> Notice("B - teasing smile")
      [] label = "C" -> Notice("C - keep distance")

\* dict.get on a missing key
None == Notice("None")
\* Python truthiness of a text or None: None and the empty string are falsy
Truthy(text) == text \notin {Empty, None}

\* What one awaited text_chat call can do: return a response with a
\* non-empty or an empty completion_text, return an object without the
\* completion_text attribute, or raise.
Outcomes == {"ok", "empty", "noattr", "raise"}
\* What the conversation manager can return: a conversation or None.
ConvOutcomes == {"conv", "none"}

\* response.completion_text if hasattr(response, 'completion_text') else fallback
CompletionText(outcome, prompt, n, fallback) ==
    CASE outcome = "ok" -> Text(prompt, n)
      [] outcome = "empty" -> Empty
      [] outcome = "noattr" -> fallback

\* ------------------------------------------------------------------ history
Entry(role, fmt, parts) == [role |-> role, fmt |-> fmt, parts |-> parts]
\* {"role": "system", "content": system_scene_prompt_text}
SceneSystemEntry == Entry("system", "plain", <<prompt_templates(SYSTEM_SCENE_PROMPT_NAME)>>)
\* {"role": "assistant", "content": text}
AssistantEntry(text) == Entry("assistant", "plain", <<text>>)
\* {"role": "assistant", "content": f"options header\n{a}\n{b}\n{c}"}
OptionsSummaryEntry(opts) == Entry("assistant", "options", opts)
\* {"role": "user", "content": f"user chose: {chosen_option_full_text}"}
UserChoiceEntry(text) == Entry("user", "chose", <<text>>)

\* ------------------------------------------------------------------ inbound text
UpperChar(c) ==
    CASE c = "a" -> "A" [] c = "b" -> "B" [] c = "c" -> "C" [] c = "d" -> "D"
      [] c = "g" -> "G" [] c = "l" -> "L" [] OTHER -> c
upper(s) == [i \in 1..Len(s) |-> UpperChar(s[i])]
IsSpace(c) == c = " "
RECURSIVE lstrip(_)
lstrip(s) == IF s # <<>> /\ IsSpace(Head(s)) THEN lstrip(Tail(s)) ELSE s
RECURSIVE rstrip(_)
rstrip(s) == IF s # <<>> /\ IsSpace(s[Len(s)]) THEN rstrip(SubSeq(s, 1, Len(s) - 1)) ELSE s
strip(s) == rstrip(lstrip(s))

StartCommand == <<"g", "a", "l", "qi", "dong">>
StopCommand == <<"g", "a", "l", "guan", "bi">>
\* the message texts the transport delivers in this model
Messages ==
    { <<"A">>, <<" ", "b", " ">>, <<"c">>, <<" ", "d">>, <<"A", "B">>, StartCommand }

\* ------------------------------------------------------------------ session store
EmptyStore == [x \in {} |-> 0]
NoOptions == [x \in {} |-> Empty]
\* {"game_active": True, "llm_context": [], "last_options": {}}
NewSession == [game_active |-> TRUE, llm_context |-> <<>>, last_options |-> NoOptions]

\* session_id in self.game_sessions and self.game_sessions[session_id].get("game_active", False)
IsActive(store, s) == s \in DOMAIN store /\ store[s].game_active

\* self.game_sessions[session_id] = value
StorePut(store, s, value) ==
    [x \in DOMAIN store \cup {s} |-> IF x = s THEN value ELSE store[x]]
\* d[key] = value on a dict
DictPut(d, key, value) ==
    [x \in DOMAIN d \cup {key} |-> IF x = key THEN value ELSE d[x]]

\* d.get(key, <the built-in option text of the label>)
DictGetOrFallback(d, key) == IF key \in DOMAIN d THEN d[key] ELSE OptionFallback(key)
\* d.get(key)
DictGet(d, key) == IF key \in DOMAIN d THEN d[key] ELSE None

\* only game_active and llm_context are reset; last_options is kept
StartResetKeepsOptions(store, s) ==
    StorePut(store, s, [NewSession EXCEPT !.last_options =
                           IF s \in DOMAIN store THEN store[s].last_options ELSE NoOptions])
\* lines 88-92: the session of s is replaced by a new one
StartReset(store, s) == StorePut(store, s, NewSession)
\* every session of the store is stopped and emptied, not the one of s alone
StopSessionAll(store, s) ==
    [x \in DOMAIN store |-> [store[x] EXCEPT !.game_active = FALSE, !.llm_context = <<>>]]
\* lines 111-112: game_active = False, llm_context = []
StopSession(store, s) ==
    [store EXCEPT ![s].game_active = FALSE, ![s].llm_context = <<>>]
\* self.game_sessions[session_id]["llm_context"].append(e) for each e of entries
AppendContext(store, s, entries) ==
    [store EXCEPT ![s].llm_context = @ \o entries]
\* self.game_sessions[session_id]["last_options"] = {}
ResetOptions(store, s) == [store EXCEPT ![s].last_options = NoOptions]
\* self.game_sessions[session_id]["last_options"][label] = text
SetOption(store, s, label, text) ==
    [store EXCEPT ![s].last_options = DictPut(@, label, text)]

\* the entry of s, as a store of at most one key (what a handler saw on entry)
Snapshot(store, s) == [x \in DOMAIN store \cap {s} |-> store[x]]

\* ------------------------------------------------------------------ tasks
\* One record per handler invocation (an async generator being iterated):
\* pc is the suspension point it waits at; txt and opts are its locals;
\* out, made, ev describe the event: items yielded, external calls awaited
\* with their outcomes, should_call_llm / stop_event marks.
\* input is the normalised message text of handle_game_input.
\* pre (the session on entry), prev (the external calls of the handler for
\* the same identifier that finished right before this one started) and
\* clean (no stop for the same identifier and no terminate changed the
\* store while it was in flight) and stale (a start for the same identifier
\* was accepted while it was in flight) are bookkeeping,
\* and so is raced[s]: the session of s was stopped or discarded while an
\* operation on it was suspended, and no start has replaced it since; and
\* current_game[s]: how many starts were accepted for s, the labels whose
\* options the last of them dropped, and the labels whose option was stored
\* since.
IdleTask ==
    [op |-> "none", sid |-> "", pc |-> "idle", input |-> <<>>, txt |-> Empty,
     opts |-> <<>>, n |-> 0, out |-> <<>>, made |-> <<>>, ev |-> "default",
     pre |-> EmptyStore, prev |-> <<>>, clean |-> TRUE, stale |-> FALSE]

InFlight(tk) == tk.pc \notin {"idle", "done"}

\* the external calls of the handler for s that has just finished, if any
JustMade(s) ==
    LET D == {u \in Slots : tasks[u].pc = "done" /\ tasks[u].sid = s}
    IN IF D = {} THEN <<>> ELSE tasks[CHOOSE u \in D : TRUE].made

NewTask(op, s) ==
    [IdleTask EXCEPT !.op = op, !.sid = s, !.pre = Snapshot(game_sessions, s),
                     !.prev = JustMade(s), !.clean = TRUE]

Emit(tk, item) == [tk EXCEPT !.out = Append(@, item)]
Made(tk, callee, outcome) == [tk EXCEPT !.made = Append(@, <<callee, outcome>>)]
\* the generator returns: its locals are gone
Finish(tk) == [tk EXCEPT !.pc = "done", !.txt = Empty, !.opts = <<>>, !.n = 0]
At(tk, pc) == [tk EXCEPT !.pc = pc]

FreeSlots == {u \in Slots : ~InFlight(tasks[u])}
Busy(s) == \E t \in Slots : InFlight(tasks[t]) /\ tasks[t].sid = s
Suspended == Cardinality(Slots \ FreeSlots)
NextSlot == CHOOSE u \in FreeSlots : \A v \in FreeSlots : u <= v

\* The record of a finished invocation is kept for one state only.
Retired(tk) == IF tk.pc = "done" THEN IdleTask ELSE tk

\* A handler for s starts in slot NextSlot as task tk; one that suspends
\* is a narrative operation.
Dispatch(s, tk) ==
    /\ s \in Senders
    /\ \/ tk.op = "stop"
       \/ Suspended = 0
       \/ transport = "overlap" /\ tk.op = "start" /\ Suspended < 2
       \/ transport = "pair" /\ ~Busy(s) /\ Suspended < 2
    /\ IF InFlight(tk)
       THEN launched < OpsBudget /\ launched' = launched + 1
       ELSE UNCHANGED launched
    /\ tasks' = [u \in Slots |->
                    IF u = NextSlot THEN tk
                    ELSE IF tasks[u].sid = s /\ InFlight(tasks[u])
                            /\ tk.op = "start" /\ InFlight(tk)
                         THEN [tasks[u] EXCEPT !.clean = FALSE, !.stale = TRUE]
                    ELSE IF tasks[u].sid = s /\ InFlight(tasks[u]) /\ IsActive(game_sessions, s)
                         THEN [tasks[u] EXCEPT !.clean = FALSE]
                         ELSE Retired(tasks[u])]
    /\ raced' = [raced EXCEPT ![s] =
                    IF tk.op = "start" /\ InFlight(tk) THEN Busy(s)
                    ELSE IF Busy(s) /\ IsActive(game_sessions, s) THEN TRUE
                    ELSE @]
    /\ UNCHANGED transport
    /\ current_game' = IF tk.op = "start" /\ InFlight(tk)
                       THEN [current_game EXCEPT ![s] =
                               [game |-> @.game + 1, labels |-> {},
                                dropped |-> IF s \in DOMAIN game_sessions
                                            THEN DOMAIN game_sessions[s].last_options
                                            ELSE {}]]
                       ELSE current_game

\* the label whose option task t has stored in the step that makes it tk
Stored(t, tk) ==
    IF Len(tk.opts) > Len(tasks[t].opts) THEN {Labels[Len(tk.opts)]} ELSE {}

Resume(t, tk) ==
    /\ tasks' = [u \in Slots |-> IF u = t THEN tk ELSE Retired(tasks[u])]
    /\ current_game' = [current_game EXCEPT ![tk.sid].labels = @ \cup Stored(t, tk)]
    /\ UNCHANGED <<launched, raced, transport>>

\* len(self.game_sessions[session_id]["llm_context"]) as text_chat is called
ContextLen(s) == Len(game_sessions[s].llm_context)

\* the environment answers an external call with outcome r
Answer(r) ==
    IF r \in {"ok", "conv"} THEN UNCHANGED faults
    ELSE faults < FaultBudget /\ faults' = faults + 1

\* the plugin after __init__
Constructed ==
    /\ game_sessions = EmptyStore
    /\ tasks = [u \in Slots |-> IdleTask]
    /\ faults = 0
    /\ launched = 0
    /\ raced = [s \in Ids |-> FALSE]
    /\ current_game = [s \in Ids |-> [game |-> 0, labels |-> {}, dropped |-> {}]]

Init == Constructed /\ transport = "serial"
InitOverlap == Constructed /\ transport = "overlap"
InitPair == Constructed /\ transport = "pair"

\* ------------------------------------------------------------------ handlers
\* the "already running" branch without its return
handle_start_galgame_no_return(s) ==
    /\ UNCHANGED faults
    /\ game_sessions' = StartReset(game_sessions, s)
    /\ Dispatch(s, At(Emit(IF IsActive(game_sessions, s)
                           THEN Emit(NewTask("start", s), AlreadyRunning)
                           ELSE NewTask("start", s),
                           Started),
                      "scene_conv"))

\* an inactive session is made active again as it is, a missing one is created
handle_start_galgame_reactivates(s) ==
    /\ UNCHANGED faults
    /\ IF IsActive(game_sessions, s)
       THEN /\ Dispatch(s, Finish(Emit(NewTask("start", s), AlreadyRunning)))
            /\ UNCHANGED game_sessions
       ELSE /\ game_sessions' = IF s \in DOMAIN game_sessions
                                THEN [game_sessions EXCEPT ![s].game_active = TRUE]
                                ELSE StartReset(game_sessions, s)
            /\ Dispatch(s, At(Emit(NewTask("start", s), Started), "scene_conv"))

\* handle_start_galgame up to its first suspension
handle_start_galgame(s) ==
    /\ UNCHANGED faults
    /\ IF IsActive(game_sessions, s)
       THEN /\ Dispatch(s, Finish(Emit(NewTask("start", s), AlreadyRunning)))
            /\ UNCHANGED game_sessions
       ELSE /\ game_sessions' = StartReset(game_sessions, s)
            /\ Dispatch(s, At(Emit(NewTask("start", s), Started), "scene_conv"))

\* the "nothing running" branch without its return
handle_stop_galgame_no_return(s) ==
    /\ UNCHANGED faults
    /\ IF ~IsActive(game_sessions, s)
       THEN /\ Dispatch(s, Finish(Emit(Emit(NewTask("stop", s), NothingRunning), Stopped)))
            /\ game_sessions' = IF s \in DOMAIN game_sessions
                                THEN StopSession(game_sessions, s) ELSE game_sessions
       ELSE /\ game_sessions' = StopSession(game_sessions, s)
            /\ Dispatch(s, Finish(Emit(NewTask("stop", s), Stopped)))

handle_stop_galgame(s) ==
    /\ UNCHANGED faults
    /\ IF ~IsActive(game_sessions, s)
       THEN /\ Dispatch(s, Finish(Emit(NewTask("stop", s), NothingRunning)))
            /\ UNCHANGED game_sessions
       ELSE /\ game_sessions' = StopSession(game_sessions, s)
            /\ Dispatch(s, Finish(Emit(NewTask("stop", s), Stopped)))

\* event.message_str.strip().upper()
user_input(m) == upper(strip(m))
ChoiceInputs == {<<Labels[i]>> : i \in 1..3}
\* user_input in "ABC": a substring test instead of a list membership
IsChoiceSubstring(u) ==
    u \in {<<>>, <<"A">>, <<"B">>, <<"C">>, <<"A", "B">>, <<"B", "C">>, <<"A", "B", "C">>}
\* user_input in ["A", "B", "C"]
IsChoice(u) == u \in ChoiceInputs
CommandInputs == {upper(StartCommand), upper(StopCommand)}

\* last_options.pop(choice) instead of last_options.get(choice)
process_user_choice_pops(s, choice, tk) ==
    LET chosen_option_full_text == DictGet(game_sessions[s].last_options, choice)
        rest == [x \in DOMAIN game_sessions[s].last_options \ {choice} |->
                    game_sessions[s].last_options[x]]
    IN IF ~Truthy(chosen_option_full_text)
       THEN /\ Dispatch(s, Finish(Emit(tk, InvalidChoice)))
            /\ UNCHANGED game_sessions
       ELSE /\ game_sessions' = AppendContext([game_sessions EXCEPT ![s].last_options = rest],
                                     s, <<UserChoiceEntry(chosen_option_full_text)>>)
            /\ Dispatch(s, At([tk EXCEPT !.txt = chosen_option_full_text], "story_conv"))

\* _process_user_choice without the "if not chosen_option_full_text" branch
process_user_choice_no_check(s, choice, tk) ==
    LET chosen_option_full_text == DictGet(game_sessions[s].last_options, choice)
    IN /\ game_sessions' = AppendContext(game_sessions, s,
                                <<UserChoiceEntry(chosen_option_full_text)>>)
       /\ Dispatch(s, At([tk EXCEPT !.txt = chosen_option_full_text], "story_conv"))

\* _process_user_choice up to its first suspension (inside handle_game_input)
process_user_choice(s, choice, tk) ==
    LET chosen_option_full_text == DictGet(game_sessions[s].last_options, choice)
    IN IF ~Truthy(chosen_option_full_text)
       THEN /\ Dispatch(s, Finish(Emit(tk, InvalidChoice)))
            /\ UNCHANGED game_sessions
       ELSE /\ game_sessions' = AppendContext(game_sessions, s,
                                     <<UserChoiceEntry(chosen_option_full_text)>>)
            /\ Dispatch(s, At([tk EXCEPT !.txt = chosen_option_full_text], "story_conv"))

handle_game_input(s, m) ==
    /\ UNCHANGED faults
    /\ LET tk == NewTask("input", s)
       IN IF IsActive(game_sessions, s)
          THEN IF IsChoice(user_input(m))
               THEN process_user_choice(s, user_input(m)[1],
                        [tk EXCEPT !.ev = "no_llm", !.input = user_input(m)])
               ELSE IF user_input(m) \notin CommandInputs
                    THEN /\ Dispatch(s, Finish([tk EXCEPT !.ev = "stopped",
                                                          !.input = user_input(m)]))
                         /\ UNCHANGED game_sessions
                    ELSE /\ Dispatch(s, Finish([tk EXCEPT !.input = user_input(m)]))
                         /\ UNCHANGED game_sessions
          ELSE /\ Dispatch(s, Finish(tk))
               /\ UNCHANGED game_sessions

\* ------------------------------------------------------------------ coroutine steps
\* the failure notice is yielded but the start goes on to _generate_options
SceneExceptGoesOn(tk, detail) == At(Emit(tk, SceneError(detail)), "opt_conv")
\* except Exception as e: yield the phase's failure notice; the generator returns
SceneExcept(tk, detail) == Finish(Emit(tk, SceneError(detail)))
OptionsExcept(tk, detail) == Finish(Emit(tk, OptionsError(detail)))
\* the failure notice is yielded but the turn goes on to _generate_options
StoryExceptGoesOn(tk, detail) == At(Emit(tk, StoryError(detail)), "opt_conv")
StoryExcept(tk, detail) == Finish(Emit(tk, StoryError(detail)))

\* the except clause of the function the phase belongs to
PhaseExcept(phase, tk, detail) ==
    CASE phase = "scene" -> SceneExcept(tk, detail)
      [] phase = "opt" -> OptionsExcept(tk, detail)
      [] phase = "story" -> StoryExcept(tk, detail)
PhaseCall(phase) ==
    CASE phase = "scene" -> "scene_call"
      [] phase = "opt" -> "opt_call"
      [] phase = "story" -> "story_call"

\* The conversation lookup awaited at the head of a phase returns; the
\* phase stops with a notice, or reads the context and awaits text_chat
\* (the option phase empties last_options first).
ConversationStep(t, phase) ==
    LET tk == tasks[t] IN
    \E c \in ConvOutcomes :
        LET tk1 == Made(tk, "conversation", c) IN
        /\ Answer(c)
        /\ IF c = "none"
           THEN Resume(t, Finish(Emit(tk1, NoConversation))) /\ UNCHANGED game_sessions
           ELSE IF tk.sid \notin DOMAIN game_sessions
                THEN /\ Resume(t, PhaseExcept(phase, tk1, "KeyError"))
                     /\ UNCHANGED game_sessions
                ELSE /\ game_sessions' = IF phase = "opt"
                                         THEN ResetOptions(game_sessions, tk.sid)
                                         ELSE game_sessions
                     /\ Resume(t, At(IF phase = "opt"
                                     THEN [tk1 EXCEPT !.opts = <<>>, !.n = ContextLen(tk.sid)]
                                     ELSE [tk1 EXCEPT !.n = ContextLen(tk.sid)],
                                     PhaseCall(phase)))

generate_initial_scene_conv(t) ==
    /\ tasks[t].pc = "scene_conv"
    /\ ConversationStep(t, "scene")

\* text_chat for the scene returns or raises; the scene text is yielded
generate_initial_scene_chat(t) ==
    LET tk == tasks[t]
        s == tk.sid
        n == tk.n
    IN /\ tk.pc = "scene_call"
       /\ UNCHANGED game_sessions
       /\ \E r \in Outcomes :
            LET tk1 == Made(tk, SYSTEM_SCENE_PROMPT_NAME, r)
                scene_text == CompletionText(r, SYSTEM_SCENE_PROMPT_NAME, n, SceneFallback)
            IN /\ Answer(r)
               /\ IF r = "raise"
                  THEN Resume(t, SceneExcept(tk1, "provider"))
                  ELSE Resume(t, At(Emit([tk1 EXCEPT !.txt = scene_text], scene_text),
                                    "scene_yield"))

\* the scene is written to the context but _generate_options is never entered
generate_initial_scene_append_no_options(t) ==
    LET tk == tasks[t]
        s == tk.sid
    IN /\ UNCHANGED faults
       /\ tk.pc = "scene_yield"
       /\ IF s \notin DOMAIN game_sessions
          THEN /\ Resume(t, SceneExcept(tk, "KeyError"))
               /\ UNCHANGED game_sessions
          ELSE /\ game_sessions' = AppendContext(game_sessions, s,
                                       <<SceneSystemEntry, AssistantEntry(tk.txt)>>)
               /\ Resume(t, Finish(tk))

\* after the scene was yielded: the two context entries, then _generate_options
generate_initial_scene_append(t) ==
    LET tk == tasks[t]
        s == tk.sid
    IN /\ UNCHANGED faults
       /\ tk.pc = "scene_yield"
       /\ IF s \notin DOMAIN game_sessions
          THEN /\ Resume(t, SceneExcept(tk, "KeyError"))
               /\ UNCHANGED game_sessions
          ELSE /\ game_sessions' = AppendContext(game_sessions, s,
                                       <<SceneSystemEntry, AssistantEntry(tk.txt)>>)
               /\ Resume(t, At([tk EXCEPT !.txt = Empty], "opt_conv"))

generate_options_conv(t) ==
    /\ tasks[t].pc = "opt_conv"
    /\ ConversationStep(t, "opt")

\* text_chat for the next label returns or raises; the option is stored and yielded
generate_options_chat(t) ==
    LET tk == tasks[t]
        s == tk.sid
        n == tk.n
        label == Labels[Len(tk.opts) + 1]
    IN /\ tk.pc = "opt_call"
       /\ \E r \in Outcomes :
            LET tk1 == Made(tk, OptionPromptName(label), r)
                option_text == CompletionText(r, OptionPromptName(label), n,
                                              OptionFallback(label))
            IN /\ Answer(r)
               /\ IF r = "raise"
                  THEN /\ Resume(t, OptionsExcept(tk1, "provider"))
                       /\ UNCHANGED game_sessions
                  ELSE IF s \notin DOMAIN game_sessions
                  THEN /\ Resume(t, OptionsExcept(tk1, "KeyError"))
                       /\ UNCHANGED game_sessions
                  ELSE /\ game_sessions' = SetOption(game_sessions, s, label, option_text)
                       /\ Resume(t, At(Emit([tk1 EXCEPT !.opts = Append(@, option_text),
                                                         !.n = ContextLen(s)],
                                            option_text),
                                       IF label = "C" THEN "opt_yield" ELSE "opt_call"))

\* the summary is written with game_sessions.setdefault(session_id, <new session>)
generate_options_append_setdefault(t) ==
    LET tk == tasks[t]
        s == tk.sid
    IN /\ UNCHANGED faults
       /\ tk.pc = "opt_yield"
       /\ game_sessions' = AppendContext(IF s \in DOMAIN game_sessions THEN game_sessions
                                         ELSE StorePut(game_sessions, s, NewSession),
                                         s, <<OptionsSummaryEntry(tk.opts)>>)
       /\ Resume(t, Finish(tk))

\* after option C was yielded: the options summary is written to the context
generate_options_append(t) ==
    LET tk == tasks[t]
        s == tk.sid
    IN /\ UNCHANGED faults
       /\ tk.pc = "opt_yield"
       /\ IF s \notin DOMAIN game_sessions
          THEN /\ Resume(t, OptionsExcept(tk, "KeyError"))
               /\ UNCHANGED game_sessions
          ELSE /\ game_sessions' = AppendContext(game_sessions, s,
                                       <<OptionsSummaryEntry(tk.opts)>>)
               /\ Resume(t, Finish(tk))

generate_story_progression_conv(t) ==
    /\ tasks[t].pc = "story_conv"
    /\ ConversationStep(t, "story")

\* text_chat for the continuation returns or raises; the story text is yielded
generate_story_progression_chat(t) ==
    LET tk == tasks[t]
        s == tk.sid
        n == tk.n
    IN /\ tk.pc = "story_call"
       /\ UNCHANGED game_sessions
       /\ \E r \in Outcomes :
            LET tk1 == Made(tk, SYSTEM_RESPONSE_PROMPT_NAME, r)
                story_text == CompletionText(r, SYSTEM_RESPONSE_PROMPT_NAME, n, StoryFallback)
            IN /\ Answer(r)
               /\ IF r = "raise"
                  THEN Resume(t, StoryExcept(tk1, "provider"))
                  ELSE Resume(t, At(Emit([tk1 EXCEPT !.txt = story_text], story_text),
                                    "story_yield"))

\* after the story text was yielded: one context entry, then _generate_options
generate_story_progression_append(t) ==
    LET tk == tasks[t]
        s == tk.sid
    IN /\ UNCHANGED faults
       /\ tk.pc = "story_yield"
       /\ IF s \notin DOMAIN game_sessions
          THEN /\ Resume(t, StoryExcept(tk, "KeyError"))
               /\ UNCHANGED game_sessions
          ELSE /\ game_sessions' = AppendContext(game_sessions, s, <<AssistantEntry(tk.txt)>>)
               /\ Resume(t, At([tk EXCEPT !.txt = Empty], "opt_conv"))

\* self.game_sessions.clear()
terminate ==
    /\ UNCHANGED <<faults, launched, transport>>
    /\ raced' = [s \in Ids |->
                    IF \E u \in Slots : InFlight(tasks[u]) /\ tasks[u].sid = s
                    THEN TRUE ELSE raced[s]]
    /\ game_sessions' = EmptyStore
    /\ tasks' = [u \in Slots |->
                    IF InFlight(tasks[u]) THEN [tasks[u] EXCEPT !.clean = FALSE]
                    ELSE Retired(tasks[u])]
    /\ current_game' = [s \in Ids |-> [current_game[s] EXCEPT !.labels = {}]]

Next ==
    \/ \E s \in Ids : handle_start_galgame(s)
    \/ \E s \in Ids : handle_stop_galgame(s)
    \/ \E s \in Ids, m \in Messages : handle_game_input(s, m)
    \/ \E t \in Slots : generate_initial_scene_conv(t)
    \/ \E t \in Slots : generate_initial_scene_chat(t)
    \/ \E t \in Slots : generate_initial_scene_append(t)
    \/ \E t \in Slots : generate_options_conv(t)
    \/ \E t \in Slots : generate_options_chat(t)
    \/ \E t \in Slots : generate_options_append(t)
    \/ \E t \in Slots : generate_story_progression_conv(t)
    \/ \E t \in Slots : generate_story_progression_chat(t)
    \/ \E t \in Slots : generate_story_progression_append(t)
    \/ terminate

Spec == Init /\ [][Next]_vars
SpecOverlap == InitOverlap /\ [][Next]_vars
SpecPair == InitPair /\ [][Next]_vars

\* ------------------------------------------------------------------ properties
Present(s) == s \in DOMAIN game_sessions
Calls(tk) == {i \in 1..Len(tk.made) : tk.made[i][1] # "conversation"}
OptionPrompts == {OptionPromptName(Labels[i]) : i \in 1..3}
OptionCalls(tk) == {i \in Calls(tk) : tk.made[i][1] \in OptionPrompts}
Raised(tk, callee) == \E i \in 1..Len(tk.made) : tk.made[i] = <<callee, "raise">>
NoCallRaised(tk) == \A i \in Calls(tk) : tk.made[i][2] # "raise"
ConversationsFound(tk) == \A i \in 1..Len(tk.made) : tk.made[i] # <<"conversation", "none">>
AcceptedStart(tk) == tk.op = "start" /\ ~IsActive(tk.pre, tk.sid)
\* text is what answering prompt can have put into a completion variable
IsCompletion(text, prompt, fallback) == text = Empty \/ text = fallback \/ text[1] = prompt
OptionsOf(a, b, c) == [x \in {"A", "B", "C"} |-> IF x = "A" THEN a ELSE IF x = "B" THEN b ELSE c]

\* the outcome of a whole opening: started notice, scene, options A, B, C
OpeningDone(tk) ==
    /\ IsActive(game_sessions, tk.sid)
    /\ Len(tk.out) = 5
    /\ tk.out[1] = Started
    /\ IsCompletion(tk.out[2], SYSTEM_SCENE_PROMPT_NAME, SceneFallback)
    /\ IsCompletion(tk.out[3], "OPTION_A_PROMPT", OptionFallback("A"))
    /\ IsCompletion(tk.out[4], "OPTION_B_PROMPT", OptionFallback("B"))
    /\ IsCompletion(tk.out[5], "OPTION_C_PROMPT", OptionFallback("C"))
    /\ game_sessions[tk.sid].last_options = OptionsOf(tk.out[3], tk.out[4], tk.out[5])
    /\ game_sessions[tk.sid].llm_context =
          <<SceneSystemEntry, AssistantEntry(tk.out[2]),
            OptionsSummaryEntry(<<tk.out[3], tk.out[4], tk.out[5]>>)>>

\* C1 as stated: a start handled for an identifier with no session or an
\* inactive one, no provider call of which fails, ends with the session
\* active and with the scene text followed by exactly the option texts of
\* A, B and C as its last four outbound items.
C1_StartYieldsSceneAndOptions ==
    \A t \in Slots :
        LET tk == tasks[t]
        IN (tk.pc = "done" /\ tk.clean /\ AcceptedStart(tk) /\ NoCallRaised(tk))
              => OpeningDone(tk)

\* C1 amended: the same, when moreover every conversation lookup of the
\* operation returns a conversation.
C1_StartYieldsSceneAndOptionsGivenConversation ==
    \A t \in Slots :
        LET tk == tasks[t]
        IN (tk.pc = "done" /\ tk.clean /\ AcceptedStart(tk) /\ NoCallRaised(tk)
               /\ ConversationsFound(tk))
              => OpeningDone(tk)

\* a restart (the session was there, inactive) that went through all four calls
C1_Witness ==
    \E t \in Slots :
        /\ tasks[t].pc = "done" /\ tasks[t].clean /\ AcceptedStart(tasks[t])
        /\ tasks[t].sid \in DOMAIN tasks[t].pre
        /\ NoCallRaised(tasks[t]) /\ ConversationsFound(tasks[t])
        /\ Cardinality(Calls(tasks[t])) = 4

\* the items _generate_options yielded: those after the scene or story text
OptionItems(tk) == SubSeq(tk.out, (IF tk.op = "start" THEN 3 ELSE 2), Len(tk.out))

\* C2: whichever of the three option calls fail, a finished option
\* generation has yielded exactly three items, the text stored under A, B
\* and C in that order, the built-in default where the call failed.
C2_OptionsAlwaysThree ==
    \A t \in Slots :
        LET tk == tasks[t]
        IN (tk.pc = "done" /\ tk.clean /\ OptionCalls(tk) # {})
              => /\ Len(OptionItems(tk)) = 3
                 /\ DOMAIN game_sessions[tk.sid].last_options = {"A", "B", "C"}
                 /\ \A i \in 1..3 :
                       /\ OptionItems(tk)[i] = game_sessions[tk.sid].last_options[Labels[i]]
                       /\ Raised(tk, OptionPromptName(Labels[i]))
                             => OptionItems(tk)[i] = OptionFallback(Labels[i])

\* the session of the task's identifier before the event
Before(tk) == tk.pre[tk.sid]
ChosenLabel(tk) == tk.input[1]

\* C3: a choice of a label present in last_options whose continuation call
\* succeeds, every conversation lookup of the turn finding the conversation,
\* appends the user entry with the chosen option's text, then the
\* assistant entry with the continuation, and regenerates three options that
\* replace last_options.
C3_ChoiceAppendsAndRegenerates ==
    \A t \in Slots :
        LET tk == tasks[t]
            k == Len(Before(tk).llm_context)
            context == game_sessions[tk.sid].llm_context
        IN (/\ tk.pc = "done" /\ tk.clean /\ tk.op = "input"
            /\ IsActive(tk.pre, tk.sid)
            /\ tk.input \in ChoiceInputs
            /\ ChosenLabel(tk) \in DOMAIN Before(tk).last_options
            /\ ConversationsFound(tk)
            /\ \E i \in Calls(tk) : /\ tk.made[i][1] = SYSTEM_RESPONSE_PROMPT_NAME
                                    /\ tk.made[i][2] # "raise")
              => /\ Len(tk.out) = 4
                 /\ Len(context) = k + 3
                 /\ SubSeq(context, 1, k) = Before(tk).llm_context
                 /\ context[k + 1] = UserChoiceEntry(Before(tk).last_options[ChosenLabel(tk)])
                 /\ context[k + 2] = AssistantEntry(tk.out[1])
                 /\ context[k + 3] = OptionsSummaryEntry(SubSeq(tk.out, 2, 4))
                 /\ game_sessions[tk.sid].last_options =
                       OptionsOf(tk.out[2], tk.out[3], tk.out[4])

\* C4: when the continuation call raises, the turn yields the failure notice
\* and nothing else, makes no option call, and leaves last_options as they
\* were before the choice.
C4_StoryFailureKeepsOptions ==
    \A t \in Slots :
        LET tk == tasks[t]
        IN (tk.pc = "done" /\ Raised(tk, SYSTEM_RESPONSE_PROMPT_NAME))
              => /\ tk.out = <<StoryError("provider")>>
                 /\ OptionCalls(tk) = {}
                 /\ Present(tk.sid)
                       => game_sessions[tk.sid].last_options = Before(tk).last_options

C4_Witness ==
    \E t \in Slots :
        /\ tasks[t].pc = "done" /\ tasks[t].clean
        /\ Raised(tasks[t], SYSTEM_RESPONSE_PROMPT_NAME)
        /\ DOMAIN game_sessions[tasks[t].sid].last_options = {"A", "B", "C"}

\* C5: a start for an identifier whose session is active never suspends,
\* yields the "already running" notice alone, makes no external call and
\* leaves the session as it was.
C5_StartOnActiveRejected ==
    \A t \in Slots :
        LET tk == tasks[t]
        IN (tk.op = "start" /\ tk.sid \in DOMAIN tk.pre /\ Before(tk).game_active)
              => /\ tk.pc = "done"
                 /\ tk.out = <<AlreadyRunning>>
                 /\ tk.made = <<>>
                 /\ Snapshot(game_sessions, tk.sid) = tk.pre

C5_Witness ==
    \E t \in Slots :
        /\ tasks[t].op = "start" /\ tasks[t].pc = "done"
        /\ tasks[t].sid \in DOMAIN tasks[t].pre
        /\ Before(tasks[t]).game_active
        /\ Len(Before(tasks[t]).llm_context) = 3
        /\ DOMAIN Before(tasks[t]).last_options = {"A", "B", "C"}

\* What a start on an identifier without a session ends with, as a function
\* of the outcomes of its external calls alone: conversation, scene,
\* conversation, options A, B, C, cut short at the first None or raise.
FirstStartOptions(made) ==
    [j \in 1..Cardinality({i \in 4..Len(made) : made[i][2] # "raise"}) |->
        CompletionText(made[3 + j][2], OptionPromptName(Labels[j]), 2,
                       OptionFallback(Labels[j]))]
FirstStartResult(made) ==
    LET last == made[Len(made)]
        hasScene == Len(made) >= 2 /\ made[2][2] # "raise"
        scene == CompletionText(made[2][2], SYSTEM_SCENE_PROMPT_NAME, 0, SceneFallback)
        opts == IF Len(made) > 3 THEN FirstStartOptions(made) ELSE <<>>
        notice == IF last = <<"conversation", "none">> THEN <<NoConversation>>
                  ELSE IF last[2] # "raise" THEN <<>>
                  ELSE IF Len(made) = 2 THEN <<SceneError("provider")>>
                  ELSE <<OptionsError("provider")>>
    IN [out |-> <<Started>> \o (IF hasScene THEN <<scene>> ELSE <<>>) \o opts \o notice,
        session |->
          [game_active |-> TRUE,
           llm_context |->
              (IF hasScene THEN <<SceneSystemEntry, AssistantEntry(scene)>> ELSE <<>>)
              \o (IF Len(opts) = 3 THEN <<OptionsSummaryEntry(opts)>> ELSE <<>>),
           last_options |-> [x \in {Labels[j] : j \in 1..Len(opts)} |->
                                opts[CHOOSE j \in 1..Len(opts) : Labels[j] = x]]]]

\* C6: a stop on an active session leaves it inactive with an empty history,
\* and a finished start ends with the session and the outbound items that
\* the outcomes of its calls give a first-ever start, whether the identifier
\* had no session or a stopped one with any options left in it.
C6_StopThenStartIsFirstStart ==
    \A t \in Slots :
        LET tk == tasks[t]
        IN /\ (tk.pc = "done" /\ tk.op = "stop" /\ IsActive(tk.pre, tk.sid))
                 => /\ Present(tk.sid)
                    /\ ~game_sessions[tk.sid].game_active
                    /\ game_sessions[tk.sid].llm_context = <<>>
           /\ (tk.pc = "done" /\ tk.clean /\ AcceptedStart(tk))
                 => /\ tk.out = FirstStartResult(tk.made).out
                    /\ game_sessions[tk.sid] = FirstStartResult(tk.made).session

\* a finished restart of a session that was stopped with options left in it
C6_Witness ==
    \E t \in Slots :
        /\ tasks[t].pc = "done" /\ tasks[t].clean /\ AcceptedStart(tasks[t])
        /\ tasks[t].sid \in DOMAIN tasks[t].pre
        /\ DOMAIN Before(tasks[t]).last_options = {"A", "B", "C"}
        /\ Len(tasks[t].out) = 5

\* C7: a stop for an identifier with no session or an inactive one never
\* suspends, yields the "nothing running" notice alone and leaves the store
\* as it was: no entry is created and no field changes.
C7_StopOnInactiveChangesNothing ==
    \A t \in Slots :
        LET tk == tasks[t]
        IN (tk.op = "stop" /\ ~IsActive(tk.pre, tk.sid))
              => /\ tk.pc = "done"
                 /\ tk.out = <<NothingRunning>>
                 /\ tk.made = <<>>
                 /\ Snapshot(game_sessions, tk.sid) = tk.pre
                 /\ DOMAIN game_sessions = DOMAIN tk.pre

\* a stop on a session that is there, inactive, with options left in it
C7_Witness ==
    \E t \in Slots :
        /\ tasks[t].op = "stop" /\ tasks[t].pc = "done"
        /\ tasks[t].sid \in DOMAIN tasks[t].pre
        /\ ~Before(tasks[t]).game_active
        /\ DOMAIN Before(tasks[t]).last_options = {"A", "B", "C"}

\* C8: for an active session, a message whose stripped, upper-cased text is
\* none of A, B, C never suspends, yields nothing, makes no external call
\* and leaves the session as it was.
C8_OtherInputIgnored ==
    \A t \in Slots :
        LET tk == tasks[t]
        IN (tk.op = "input" /\ IsActive(tk.pre, tk.sid) /\ tk.input \notin ChoiceInputs)
              => /\ tk.pc = "done"
                 /\ tk.out = <<>>
                 /\ tk.made = <<>>
                 /\ Snapshot(game_sessions, tk.sid) = tk.pre

C8_Witness ==
    \E t \in Slots :
        /\ tasks[t].op = "input" /\ tasks[t].pc = "done"
        /\ IsActive(tasks[t].pre, tasks[t].sid)
        /\ tasks[t].input = <<"D">>
        /\ DOMAIN Before(tasks[t]).last_options = {"A", "B", "C"}

EntryKind(e) ==
    IF e.role = "assistant" THEN (IF e.fmt = "options" THEN "options" ELSE "text")
    ELSE e.role
\* scene prompt, scene, then (options summary, user choice, continuation) repeated
ExpectedKind(i) ==
    IF i = 1 THEN "system"
    ELSE IF i = 2 THEN "text"
    ELSE <<"options", "user", "text">>[((i - 3) % 3) + 1]

\* C9: as long as messages are handled one at a time, every history is a
\* prefix of: scene prompt, scene, then options summary, user choice,
\* continuation, repeated; so a user choice always follows an options summary.
C9_HistoryCausalOrder ==
    \A s \in DOMAIN game_sessions :
        ~raced[s] =>
            \A i \in 1..Len(game_sessions[s].llm_context) :
                EntryKind(game_sessions[s].llm_context[i]) = ExpectedKind(i)

\* C10: every session that is there with game_active false has an empty
\* history, also after a stop handled while an operation on the same
\* identifier was suspended on a provider call and resumed afterwards.
C10_InactiveHistoryEmpty ==
    \A s \in DOMAIN game_sessions :
        ~game_sessions[s].game_active => game_sessions[s].llm_context = <<>>

\* C11: a choice of a label that is not in last_options of an active
\* session never suspends, yields the invalid-choice notice alone, makes no
\* external call and leaves the session as it was.
C11_MissingLabelRejected ==
    \A t \in Slots :
        LET tk == tasks[t]
        IN (/\ tk.op = "input" /\ IsActive(tk.pre, tk.sid)
            /\ tk.input \in ChoiceInputs
            /\ ChosenLabel(tk) \notin DOMAIN Before(tk).last_options)
              => /\ tk.pc = "done"
                 /\ tk.out = <<InvalidChoice>>
                 /\ tk.made = <<>>
                 /\ Snapshot(game_sessions, tk.sid) = tk.pre

\* label C is chosen while last_options holds A and B only
C11_Witness ==
    \E t \in Slots :
        /\ tasks[t].op = "input" /\ tasks[t].pc = "done"
        /\ IsActive(tasks[t].pre, tasks[t].sid)
        /\ tasks[t].input = <<"C">>
        /\ DOMAIN Before(tasks[t]).last_options = {"A", "B"}
        /\ tasks[t].out = <<InvalidChoice>>

HistoryOf(store, s) == IF s \in DOMAIN store THEN store[s].llm_context ELSE <<>>
ConversationMissing(tk) ==
    tk.made # <<>> /\ tk.made[Len(tk.made)] = <<"conversation", "none">>

\* C12: an operation whose conversation lookup finds nothing, in whichever
\* phase, yields the retry notice once, as its last item, makes no provider
\* call after the lookup, and leaves the history as it was before the
\* message was handled.
C12_NoConversationKeepsHistory ==
    \A t \in Slots :
        LET tk == tasks[t]
        IN (tk.pc = "done" /\ tk.clean /\ ConversationMissing(tk))
              => /\ tk.out[Len(tk.out)] = NoConversation
                 /\ Cardinality({i \in 1..Len(tk.out) : tk.out[i] = NoConversation}) = 1
                 /\ HistoryOf(game_sessions, tk.sid) = HistoryOf(tk.pre, tk.sid)

\* C13: while no operation is in flight for a session, the labels of its
\* last_options are none or all of A, B, C.
C13_OptionsNoneOrAll ==
    \A s \in DOMAIN game_sessions :
        ~Busy(s) => DOMAIN game_sessions[s].last_options \in {{}, {"A", "B", "C"}}

\* C14: a start whose scene call raises yields the failure notice after the
\* "started" notice and nothing else, makes no option call, and leaves the
\* session active with an empty history and no options.
C14_SceneFailureLeavesNewSession ==
    \A t \in Slots :
        LET tk == tasks[t]
        IN (tk.pc = "done" /\ tk.clean /\ Raised(tk, SYSTEM_SCENE_PROMPT_NAME))
              => /\ tk.out = <<Started, SceneError("provider")>>
                 /\ OptionCalls(tk) = {}
                 /\ Present(tk.sid)
                 /\ game_sessions[tk.sid] = NewSession

\* the scene call of a restart raises, options of the game before are gone
C14_Witness ==
    \E t \in Slots :
        /\ tasks[t].pc = "done" /\ tasks[t].clean
        /\ Raised(tasks[t], SYSTEM_SCENE_PROMPT_NAME)
        /\ tasks[t].sid \in DOMAIN tasks[t].pre
        /\ DOMAIN Before(tasks[t]).last_options = {"A", "B", "C"}
        /\ game_sessions[tasks[t].sid] = NewSession

\* the turn of task t has just ended with its continuation call raising
FailedTurn(t) ==
    /\ tasks[t].pc = "done" /\ tasks[t].clean /\ tasks[t].op = "input"
    /\ Raised(tasks[t], SYSTEM_RESPONSE_PROMPT_NAME)
\* the message handled in this step is the choice of label
ChoiceStep(s, label) ==
    \E m \in Messages : user_input(m) = <<label>> /\ handle_game_input(s, m)

Stuck(s) == Present(s) /\ game_sessions[s] = NewSession /\ ~Busy(s)

\* C19: once a failed opening has left a session active with no options,
\* every A/B/C message yields the invalid-choice notice alone and every
\* start is rejected as already running, both leaving the store as it is,
\* and the session stays so until a stop is handled (or the plugin is shut
\* down): no new option set appears before that.
C19_StuckUntilStop ==
    [][\A s \in Ids :
          Stuck(s) =>
             /\ \A i \in 1..3 :
                   ChoiceStep(s, Labels[i])
                      => /\ tasks'[NextSlot].pc = "done"
                         /\ tasks'[NextSlot].out = <<InvalidChoice>>
                         /\ tasks'[NextSlot].made = <<>>
                         /\ game_sessions' = game_sessions
             /\ handle_start_galgame(s)
                   => /\ tasks'[NextSlot].pc = "done"
                      /\ tasks'[NextSlot].out = <<AlreadyRunning>>
                      /\ tasks'[NextSlot].made = <<>>
                      /\ game_sessions' = game_sessions
             /\ Stuck(s)' \/ handle_stop_galgame(s) \/ terminate]_vars

\* a choice is rejected right after the start whose scene call raised
C19_Witness ==
    \E t \in Slots :
        LET tk == tasks[t]
        IN /\ tk.op = "input" /\ tk.pc = "done" /\ tk.input \in ChoiceInputs
           /\ <<SYSTEM_SCENE_PROMPT_NAME, "raise">> \in {tk.prev[i] : i \in 1..Len(tk.prev)}
           /\ tk.out = <<InvalidChoice>>
           /\ Stuck(tk.sid)

\* C20: with one operation at a time per identifier, an active session
\* holds options stored since the last accepted start only, and an accepted
\* choice is resolved against one of them: the user entry it appends records
\* the text that last_options held for the label.
C20_ChoiceResolvedInCurrentGame ==
    /\ \A s \in DOMAIN game_sessions :
          game_sessions[s].game_active
             => DOMAIN game_sessions[s].last_options \subseteq current_game[s].labels
    /\ \A t \in Slots :
          LET tk == tasks[t]
              k == Len(Before(tk).llm_context)
          IN (tk.op = "input" /\ InFlight(tk) /\ tk.clean)
                => /\ ChosenLabel(tk) \in current_game[tk.sid].labels
                   /\ game_sessions[tk.sid].llm_context[k + 1]
                         = UserChoiceEntry(Before(tk).last_options[ChosenLabel(tk)])

\* a choice is being handled in the second game of its identifier, whose
\* session held all three options of the first game when it was restarted
C20_Witness ==
    \E t \in Slots :
        LET tk == tasks[t]
        IN /\ tk.op = "input" /\ InFlight(tk) /\ tk.clean
           /\ current_game[tk.sid].game = 2
           /\ current_game[tk.sid].dropped = {"A", "B", "C"}
           /\ current_game[tk.sid].labels = {"A", "B", "C"}
           /\ Len(game_sessions[tk.sid].llm_context) = 4

FailureNotices ==
    {NoConversation} \cup
    UNION {{SceneError(d), OptionsError(d), StoryError(d)} : d \in {"provider", "KeyError"}}

\* C16: an operation whose session was discarded by terminate while it was
\* suspended never puts an entry for its identifier back into the store,
\* and the item it yields last, when it ends, is a failure notice.
C16_DiscardedSessionStaysGone ==
    [][\A t \in Slots :
          (InFlight(tasks[t]) /\ ~Present(tasks[t].sid))
             => /\ tasks[t].sid \notin DOMAIN game_sessions'
                /\ tasks'[t].pc = "done"
                      => tasks'[t].out[Len(tasks'[t].out)] \in FailureNotices]_vars

\* an operation has ended on the missing entry after it had yielded option C
C16_Witness ==
    \E t \in Slots :
        LET tk == tasks[t]
        IN /\ tk.pc = "done" /\ ~tk.clean /\ ~Present(tk.sid)
           /\ Cardinality(OptionCalls(tk)) = 3
           /\ tk.out[Len(tk.out)] = OptionsError("KeyError")

\* task t takes its next step
StepOf(t) ==
    \/ generate_initial_scene_conv(t) \/ generate_initial_scene_chat(t)
    \/ generate_initial_scene_append(t)
    \/ generate_options_conv(t) \/ generate_options_chat(t) \/ generate_options_append(t)
    \/ generate_story_progression_conv(t) \/ generate_story_progression_chat(t)
    \/ generate_story_progression_append(t)
\* a message of s is handled
HandlerOf(s) ==
    \/ handle_start_galgame(s) \/ handle_stop_galgame(s)
    \/ \E m \in Messages : handle_game_input(s, m)

\* C17: a start accepted while an earlier operation of the same identifier
\* is suspended puts a new session in place of the old one, and no step the
\* earlier operation takes afterwards changes the history or the options of
\* that new session.
C17_StartDiscardsSuspendedOperation ==
    [][\A s \in Ids :
          /\ (Busy(s) /\ ~IsActive(game_sessions, s) /\ handle_start_galgame(s))
                => game_sessions'[s] = NewSession
          /\ \A t \in Slots :
                (tasks[t].stale /\ tasks[t].sid = s /\ Present(s) /\ StepOf(t))
                   => /\ game_sessions'[s].llm_context = game_sessions[s].llm_context
                      /\ game_sessions'[s].last_options = game_sessions[s].last_options]_vars

\* C18: a message handled for one identifier and a step of an operation of
\* one identifier leave the session of every other identifier as it is,
\* there or not; so a start that ends while another identifier is served
\* leaves what the outcomes of its own calls give a start that runs alone.
C18_SessionsAreIsolated ==
    /\ [][\A x \in Ids : \A y \in Ids \ {x} :
             (HandlerOf(x) \/ \E t \in Slots : tasks[t].sid = x /\ StepOf(t))
                => Snapshot(game_sessions, y)' = Snapshot(game_sessions, y)]_vars
    /\ [](\A t \in Slots :
             (tasks[t].pc = "done" /\ tasks[t].clean /\ AcceptedStart(tasks[t]))
                => /\ tasks[t].out = FirstStartResult(tasks[t].made).out
                   /\ game_sessions[tasks[t].sid] = FirstStartResult(tasks[t].made).session)

\* an operation of each identifier is suspended, its scene in its history
C18_Witness ==
    \E t \in Slots : \E u \in Slots \ {t} :
        /\ InFlight(tasks[t]) /\ InFlight(tasks[u])
        /\ tasks[t].sid # tasks[u].sid
        /\ Len(HistoryOf(game_sessions, tasks[t].sid)) >= 2
        /\ Len(HistoryOf(game_sessions, tasks[u].sid)) >= 2
        /\ IsActive(game_sessions, tasks[t].sid)
        /\ ~IsActive(game_sessions, tasks[u].sid)

====
